---- MODULE Spec2Model ----
(***************************************************************************)
(* PIN-protected approvals for actions involving ops/secrets.env:          *)
(* tools/secure_env_manager.py (credential store, issuer, verifier),       *)
(* tools/build_deployment.py and tools/agent_executor.py (gate consumers). *)
(*                                                                         *)
(* Text is a sequence of one-character strings, so that Python's substring *)
(* test `x in text` is computed character by character.  PBKDF2 and HMAC   *)
(* are symbolic (collision-free) terms over their arguments.               *)
(***************************************************************************)
EXTENDS Integers, Sequences, FiniteSets, TLC

(* ------------------------------ bounds --------------------------------- *)
MaxApprovals == 2       \* approve calls that get past the PIN check
MaxTime == 0            \* largest value time.time() returns (seconds since epoch)
MaxTemp == 1            \* refused builds whose temporary directory is kept
MaxEdits == 1           \* edits made to the files from outside the tools

(* ------------------------------ input sets ----------------------------- *)
\* uuid4 values: strings of equal length over hex digits
UUIDs == { <<"a", "f">>, <<"b", "e">> }
Pins == { "1234", "0000" }
\* os.urandom(SALT_LEN)
Salts == { "s1", "s2" }
\* --message: free text, possibly mentioning an approval id
Messages == { <<"o", "k">>, <<"a", "f">> }
\* strings handed to the verifiers and gate consumers as an approval id:
\* the ids, the empty string, a fragment of an id, a word of a ledger line
Queries == UUIDs \cup { <<>>, <<"a">>, <<"i", "d">> }
\* what HISTORICAL_CHANGE_LOG.md holds before any approval is appended
Header == <<"#", " ", "L", "\n">>

(* ------------------------------- text ---------------------------------- *)
Digits == <<"0", "1", "2", "3", "4", "5", "6", "7", "8", "9">>

TwoDigits(n) == << Digits[(n \div 10) + 1], Digits[(n % 10) + 1] >>

\* time.strftime('%Y-%m-%d %H:%M:%S', time.gmtime(ts)) for the first day
\* of the epoch (ts < 86400)
Strftime(ts) ==
    <<"1", "9", "7", "0", "-", "0", "1", "-", "0", "1", " ">>
    \o TwoDigits(ts \div 3600) \o <<":">>
    \o TwoDigits((ts \div 60) % 60) \o <<":">>
    \o TwoDigits(ts % 60)

\* Python: needle in text
Contains(needle, text) ==
    \E i \in 0 .. (Len(text) - Len(needle)) :
        \A j \in 1 .. Len(needle) : text[i + j] = needle[j]

\* f"- [{strftime}] APPROVAL: id={aid} message={message}\n"
EntryHead(ts) ==
    <<"-", " ", "[">> \o Strftime(ts)
    \o <<"]", " ", "A", "P", "P", "R", "O", "V", "A", "L", ":", " ", "i", "d", "=">>

Entry(ts, aid, message) ==
    EntryHead(ts) \o aid
    \o <<" ", "m", "e", "s", "s", "a", "g", "e", "=">> \o message \o <<"\n">>

(* ------------------------------ crypto --------------------------------- *)
\* hashlib.pbkdf2_hmac('sha256', pin, salt, ITER)
Pbkdf2(pin, salt) == <<"pbkdf2", pin, salt>>

\* the message is left out of the signed bytes
CanonJsonNoMessage(payload) ==
    <<"id", payload.id, "ts", payload.ts>>

\* json.dumps(payload, sort_keys=True): keys in sorted order
CanonJson(payload) ==
    <<"id", payload.id, "message", payload.message, "ts", payload.ts>>

\* a digest that is not keyed by the PIN
HmacUnkeyed(pin, bytes) == <<"hmac", "", bytes>>

\* hmac.new(pin, payload_bytes, 'sha256').hexdigest()
Hmac(pin, bytes) == <<"hmac", pin, bytes>>

(* --------------------------- file contents ----------------------------- *)
NoPayload == [id |-> <<>>, ts |-> 0, message |-> <<>>]
NoSig == [kind |-> "missing", val |-> <<>>]

\* json.dumps({"payload": payload, "sig": sig}, indent=2) as stored on disk:
\* parses = the text is valid JSON, hasPayload = it has the key "payload",
\* sig.kind = missing / empty / str / number
RecordFile(payload, sig) ==
    [parses |-> TRUE, hasPayload |-> TRUE, payload |-> payload,
     sig |-> [kind |-> "str", val |-> sig]]

\* no secrets snapshot, ops/secrets.env not locked, no installation_state.json
NotInstalled == [snapshot |-> FALSE, locked |-> FALSE, state |-> "none"]

NoPinFile == [exists |-> FALSE, salt |-> "", dk |-> <<>>]

\* the approve invocations that may run at the same time
Issuers == {1, 2}

\* an approve invocation that has not been started: pc is its position, the
\* other fields are its local variables (text = what HISTORY.read_text()
\* returned)
NotStarted ==
    [pc |-> "idle", alive |-> FALSE, pin |-> "", aid |-> <<>>, ts |-> 0,
     message |-> <<>>, text |-> <<>>]

(* ------------------------------- state --------------------------------- *)
VARIABLES
    dirs,        \* .secure and .secure/approvals exist
    pinFile,     \* .secure/pin.hash: salt + dk
    approvals,   \* .secure/approvals/<name>.approval: name -> content
    history,     \* HISTORICAL_CHANGE_LOG.md: [exists, text]
    nApproved,   \* approve calls that got past the PIN check
    secrets,     \* ops/secrets.env exists
    tempDirs,    \* mbp_deploy_* directories left behind
    archive,     \* the deployment archive: [exists, files]
    issuedOk,    \* ids for which approve printed "Approval created"
    nEdits,      \* edits made to the files from outside the tools
    issuedPin,   \* id -> the PIN given to the approve call that created it
    install,     \* what installer.py left: [snapshot, locked, state]
    procs,       \* approve invocations in progress: issuer -> its position
    last         \* the last invocation: arguments and outcome

vars == <<dirs, pinFile, approvals, history, nApproved, secrets,
          tempDirs, archive, issuedOk, nEdits, issuedPin, install, procs,
          last>>

Call(op, id, pin, ok, exit, out) ==
    [op |-> op, id |-> id, pin |-> pin, ok |-> ok, exit |-> exit, out |-> out,
     flag |-> FALSE, did |-> <<>>]

Init ==
    /\ dirs = FALSE
    /\ pinFile = NoPinFile
    /\ approvals = << >>
    /\ history \in { [exists |-> FALSE, text |-> <<>>],
                     [exists |-> TRUE, text |-> Header] }
    /\ nApproved = 0
    /\ secrets = TRUE
    /\ tempDirs = 0
    /\ archive = [exists |-> FALSE, files |-> {}]
    /\ issuedOk = {}
    /\ nEdits = 0
    /\ issuedPin = << >>
    /\ install = NotInstalled
    /\ procs = [p \in Issuers |-> NotStarted]
    /\ last = Call("start", <<>>, "", FALSE, 0, "")

(* --------------------------- credential store -------------------------- *)
\* set_pin without the overwrite confirmation
SetPinOutcomeNoConfirm(confirm, pin, pin2) ==
    IF pin # pin2 THEN "Pins do not match"
    ELSE "PIN set"

\* set_pin: what the invocation prints
SetPinOutcome(confirm, pin, pin2) ==
    IF pinFile.exists /\ confirm # "YES" THEN "Aborted"
    ELSE IF pin # pin2 THEN "Pins do not match"
    ELSE "PIN set"

SetPin(confirm, pin, pin2, salt) ==
    LET outcome == SetPinOutcome(confirm, pin, pin2) IN
    /\ dirs' = TRUE
    /\ pinFile' = IF outcome = "PIN set"
                  THEN [exists |-> TRUE, salt |-> salt, dk |-> Pbkdf2(pin, salt)]
                  ELSE pinFile
    /\ last' = Call("set-pin", <<>>, pin, outcome = "PIN set", 0, outcome)
    /\ UNCHANGED <<approvals, history, nApproved, secrets, tempDirs,
                   archive, issuedOk, nEdits,
                   issuedPin, install, procs>>

\* _check_pin that only looks for the PIN file
CheckPinFileOnly(pin) == pinFile.exists

\* _check_pin
CheckPin(pin) ==
    IF ~pinFile.exists THEN FALSE
    ELSE Pbkdf2(pin, pinFile.salt) = pinFile.dk

(* ------------------------------- issuer -------------------------------- *)
WriteFile(files, name, content) ==
    [n \in (DOMAIN files) \cup {name} |-> IF n = name THEN content ELSE files[n]]

\* approve without the _check_pin guard
ApproveOutcomeUnchecked(pin) ==
    IF ~history.exists THEN "FileNotFoundError"
    ELSE "Approval created"

\* approve: how the invocation ends
ApproveOutcome(pin) ==
    IF ~CheckPin(pin) THEN "Invalid PIN"
    ELSE IF ~history.exists THEN "FileNotFoundError"
    ELSE "Approval created"

\* approve: path.write_text(json.dumps(record, indent=2))
ApproveRecords(message, pin, aid, ts) ==
    LET payload == [id |-> aid, ts |-> ts, message |-> message]
        sig == Hmac(pin, CanonJson(payload))
    IN  IF ApproveOutcome(pin) = "Invalid PIN" THEN approvals
        ELSE WriteFile(approvals, aid, RecordFile(payload, sig))

\* the characters of a PIN
PinChars(pin) ==
    IF pin = "1234" THEN <<"1", "2", "3", "4">> ELSE <<"0", "0", "0", "0">>

\* approve logging the PIN it was given
ApproveHistoryLogsPin(message, pin, aid, ts) ==
    IF ApproveOutcome(pin) = "Approval created"
    THEN [exists |-> TRUE,
          text |-> history.text \o Entry(ts, aid, message \o PinChars(pin))]
    ELSE history

\* approve writing the entry without reading the ledger first
ApproveHistoryOverwrite(message, pin, aid, ts) ==
    IF ApproveOutcome(pin) = "Approval created"
    THEN [exists |-> TRUE, text |-> Entry(ts, aid, message)]
    ELSE history

\* approve: HISTORY.write_text(HISTORY.read_text() + entry)
ApproveHistory(message, pin, aid, ts) ==
    IF ApproveOutcome(pin) = "Approval created"
    THEN [exists |-> TRUE, text |-> history.text \o Entry(ts, aid, message)]
    ELSE history

\* aid = str(uuid.uuid4()), ts = int(time.time())
Approve(message, pin, aid, ts) ==
    LET outcome == ApproveOutcome(pin) IN
    /\ outcome # "Invalid PIN" => nApproved < MaxApprovals
    /\ dirs' = TRUE
    /\ approvals' = ApproveRecords(message, pin, aid, ts)
    /\ history' = ApproveHistory(message, pin, aid, ts)
    /\ nApproved' = IF outcome = "Invalid PIN" THEN nApproved ELSE nApproved + 1
    /\ issuedOk' = IF outcome = "Approval created" THEN issuedOk \cup {aid}
                   ELSE issuedOk
    /\ issuedPin' = IF outcome = "Approval created"
                    THEN WriteFile(issuedPin, aid, pin) ELSE issuedPin
    /\ last' = Call("approve", aid, pin, outcome = "Approval created",
                    IF outcome = "FileNotFoundError" THEN 1 ELSE 0, outcome)
    /\ UNCHANGED <<pinFile, secrets, tempDirs, archive, nEdits,
                   install, procs>>

(* ------------------------------ verifier ------------------------------- *)
\* verify_approval that does not load the record before the ledger test
VerifyOutcomeUnparsed(approval_id) ==
    IF approval_id \notin DOMAIN approvals THEN "Approval file not found"
    ELSE IF ~history.exists THEN "Invalid approval file"
    ELSE IF ~Contains(approval_id, history.text)
         THEN "Approval id not recorded"
    ELSE "Approval exists and is recorded"

\* verify_approval without the ledger test
VerifyOutcomeNoLedger(approval_id) ==
    IF approval_id \notin DOMAIN approvals THEN "Approval file not found"
    ELSE LET rec == approvals[approval_id] IN
         IF ~rec.parses THEN "Invalid approval file"
         ELSE IF ~rec.hasPayload THEN "Invalid approval file"
         ELSE "Approval exists and is recorded"

\* verify_approval: the line it prints; an exception raised inside the try
\* block is caught and reported as "Invalid approval file"
VerifyOutcome(approval_id) ==
    IF approval_id \notin DOMAIN approvals THEN "Approval file not found"
    ELSE LET rec == approvals[approval_id] IN
         IF ~rec.parses THEN "Invalid approval file"
         ELSE IF ~rec.hasPayload THEN "Invalid approval file"
         ELSE IF ~history.exists THEN "Invalid approval file"
         ELSE IF ~Contains(approval_id, history.text)
              THEN "Approval id not recorded"
         ELSE "Approval exists and is recorded"

\* verify_approval: the value it returns
VerifyApproval(approval_id) ==
    VerifyOutcome(approval_id) = "Approval exists and is recorded"

\* verify_approval_with_pin asking the credential store about the PIN first
VerifyPinOutcomeChecksPin(approval_id, pin) ==
    IF ~CheckPin(pin) THEN "Invalid PIN"
    ELSE IF approval_id \notin DOMAIN approvals THEN "Approval file not found"
    ELSE LET rec == approvals[approval_id] IN
         IF ~rec.parses \/ ~rec.hasPayload THEN "Invalid approval file or error"
         ELSE IF rec.sig.kind # "str" THEN "Approval record missing signature"
         ELSE IF Hmac(pin, CanonJson(rec.payload)) # rec.sig.val
              THEN "Signature mismatch"
         ELSE IF ~history.exists \/ ~Contains(approval_id, history.text)
              THEN "Approval id not recorded"
         ELSE "Signature verified"

\* verify_approval_with_pin: the last line it prints
VerifyPinOutcome(approval_id, pin) ==
    IF approval_id \notin DOMAIN approvals THEN "Approval file not found"
    ELSE LET rec == approvals[approval_id] IN
         IF ~rec.parses THEN "Invalid approval file or error"
         ELSE IF ~rec.hasPayload THEN "Invalid approval file or error"
         ELSE IF rec.sig.kind \in {"missing", "empty"}
              THEN "Approval record missing signature"
         ELSE IF rec.sig.kind # "str" THEN "Invalid approval file or error"
         ELSE IF Hmac(pin, CanonJson(rec.payload)) = rec.sig.val
              THEN IF ~history.exists THEN "Invalid approval file or error"
                   ELSE IF ~Contains(approval_id, history.text)
                        THEN "Approval id not recorded"
                   ELSE "Signature verified"
         ELSE "Signature mismatch"

\* verify_approval_with_pin: the value it returns
VerifyApprovalWithPin(approval_id, pin) ==
    VerifyPinOutcome(approval_id, pin) = "Signature verified"

\* verify_approval_with_pin reading the ledger before it compares signatures
VerifyPinStepsLedgerFirst(approval_id, pin) ==
    IF approval_id \notin DOMAIN approvals THEN <<"path.exists">>
    ELSE <<"path.exists", "read record", "read ledger", "compare_digest">>

\* verify_approval_with_pin: the files it reads and the comparisons it makes,
\* in order; compare_digest raises on a signature that is not a string, and
\* HISTORY.read_text() raises when the ledger is missing
VerifyPinSteps(approval_id, pin) ==
    IF approval_id \notin DOMAIN approvals THEN <<"path.exists">>
    ELSE LET rec == approvals[approval_id] IN
         IF ~rec.parses \/ ~rec.hasPayload
         THEN <<"path.exists", "read record">>
         ELSE IF rec.sig.kind \in {"missing", "empty"}
              THEN <<"path.exists", "read record">>
         ELSE IF rec.sig.kind # "str"
              THEN <<"path.exists", "read record", "compare_digest">>
         ELSE IF Hmac(pin, CanonJson(rec.payload)) = rec.sig.val
              THEN <<"path.exists", "read record", "compare_digest",
                     "read ledger">>
                   \o (IF history.exists THEN <<"id in text">> ELSE <<>>)
         ELSE <<"path.exists", "read record", "compare_digest">>

\* verify using an approval up: the record is deleted once it was granted
VerifyConsuming(approval_id) ==
    LET ok == VerifyApproval(approval_id) IN
    /\ dirs' = TRUE
    /\ approvals' = IF ok
                    THEN [n \in (DOMAIN approvals) \ {approval_id} |-> approvals[n]]
                    ELSE approvals
    /\ last' = Call("verify", approval_id, "", ok, IF ok THEN 0 ELSE 2,
                    VerifyOutcome(approval_id))
    /\ UNCHANGED <<pinFile, history, nApproved, secrets, tempDirs,
                   archive, issuedOk, nEdits,
                   issuedPin, install, procs>>

\* main, cmd == 'verify': exit(2) unless verify_approval returned True
Verify(approval_id) ==
    LET ok == VerifyApproval(approval_id) IN
    /\ dirs' = TRUE
    /\ last' = Call("verify", approval_id, "", ok, IF ok THEN 0 ELSE 2,
                    VerifyOutcome(approval_id))
    /\ UNCHANGED <<pinFile, approvals, history, nApproved, secrets, tempDirs,
                   archive, issuedOk, nEdits,
                   issuedPin, install, procs>>

\* main, cmd == 'verify-pin'
VerifyPin(approval_id, pin) ==
    LET ok == VerifyApprovalWithPin(approval_id, pin) IN
    /\ dirs' = TRUE
    /\ last' = [Call("verify-pin", approval_id, pin, ok, IF ok THEN 0 ELSE 2,
                     VerifyPinOutcome(approval_id, pin))
                EXCEPT !.did = VerifyPinSteps(approval_id, pin)]
    /\ UNCHANGED <<pinFile, approvals, history, nApproved, secrets, tempDirs,
                   archive, issuedOk, nEdits,
                   issuedPin, install, procs>>

\* list_approvals: one row per *.approval file, "(invalid)" for a file that
\* does not load
ListRows ==
    { <<n, IF approvals[n].parses /\ approvals[n].hasPayload
           THEN approvals[n].payload.message ELSE <<>> >> : n \in DOMAIN approvals }

List ==
    /\ dirs' = TRUE
    /\ last' = Call("list", <<>>, "", ListRows # {}, 0,
                    IF ListRows = {} THEN "No approvals found" ELSE "rows")
    /\ UNCHANGED <<pinFile, approvals, history, nApproved, secrets, tempDirs,
                   archive, issuedOk, nEdits,
                   issuedPin, install, procs>>

(* --------------------------- gate consumers ---------------------------- *)
SecretsFile == "ops/secrets.env"

\* gather_files adding the secrets file whenever it is present
GatherFilesAlways(include_secrets) ==
    {"tools"} \cup (IF secrets THEN {SecretsFile} ELSE {})

\* build_deployment.gather_files: the secrets file is added last, when asked
\* for and present
GatherFiles(include_secrets) ==
    {"tools"} \cup (IF include_secrets /\ secrets THEN {SecretsFile} ELSE {})

\* the gate without the `not approval_id` refusal
BuildGateNoIdCheck(include_secrets, given, approval_id) ==
    IF ~include_secrets THEN "pass"
    ELSE IF ~history.exists
            \/ ~Contains(IF given THEN approval_id ELSE <<>>, history.text)
         THEN "not found"
    ELSE "pass"

\* build_deployment.build: the approval gate in front of the try block;
\* given = FALSE stands for approval_id=None
BuildGate(include_secrets, given, approval_id) ==
    IF ~include_secrets THEN "pass"
    ELSE IF ~given \/ approval_id = <<>> THEN "requires approval"
    ELSE IF ~history.exists \/ ~Contains(approval_id, history.text)
         THEN "not found"
    ELSE "pass"

\* the side effects of one build call, in order
BuildSteps(gate, include_secrets) ==
    IF gate # "pass"
    THEN <<"mkdtemp">>
    ELSE <<"mkdtemp", "gather", "copy tools">>
         \o (IF SecretsFile \in GatherFiles(include_secrets)
             THEN <<"copy secrets">> ELSE <<>>)
         \o <<"manifest", "report", "archive", "rmtree">>

Build(include_secrets, given, approval_id) ==
    LET gate == BuildGate(include_secrets, given, approval_id) IN
    /\ gate # "pass" => tempDirs < MaxTemp
    /\ tempDirs' = IF gate # "pass" THEN tempDirs + 1 ELSE tempDirs
    /\ archive' = IF gate = "pass"
                  THEN [exists |-> TRUE, files |-> GatherFiles(include_secrets)]
                  ELSE archive
    /\ last' = [Call("build", IF given THEN approval_id ELSE <<>>, "",
                     gate = "pass", IF gate = "pass" THEN 0 ELSE 2, gate)
                EXCEPT !.flag = include_secrets,
                       !.did = BuildSteps(gate, include_secrets)]
    /\ UNCHANGED <<dirs, pinFile, approvals, history, nApproved, secrets, issuedOk, nEdits,
                   issuedPin, install, procs>>

\* agent_executor.verify_approval
AgentVerifyApproval(aid) ==
    IF ~history.exists THEN FALSE
    ELSE Contains(aid, history.text)

\* agent_executor.main: the exit code; cmd is "none" (no command given),
\* "dry" (--dry-run) or "run"; rc is the command's return code
AgentExit(approval_id, cmd, rc) ==
    IF ~AgentVerifyApproval(approval_id) THEN 2
    ELSE IF cmd = "none" THEN 1
    ELSE IF cmd = "dry" THEN 0
    ELSE rc

\* agent_executor.main: subprocess.run(args.cmd) is reached
AgentRuns(approval_id, cmd) ==
    AgentVerifyApproval(approval_id) /\ cmd = "run"

Exec(approval_id, cmd, rc) ==
    /\ last' = [Call("exec", approval_id, "", AgentVerifyApproval(approval_id),
                     AgentExit(approval_id, cmd, rc), cmd)
                EXCEPT !.did = IF AgentRuns(approval_id, cmd)
                               THEN <<"run">> ELSE <<>>]
    /\ UNCHANGED <<dirs, pinFile, approvals, history, nApproved, secrets,
                   tempDirs, archive, issuedOk, nEdits,
                   issuedPin, install, procs>>

(* ----------------------- secure_env_manager.py CLI --------------------- *)
Next ==
    \/ \E confirm \in {"YES", "no"}, pin \in Pins, pin2 \in Pins, salt \in Salts :
          SetPin(confirm, pin, pin2, salt)
    \/ \E message \in Messages, pin \in Pins, aid \in UUIDs, ts \in 0 .. MaxTime :
          Approve(message, pin, aid, ts)
    \/ \E approval_id \in Queries : Verify(approval_id)
    \/ \E approval_id \in Queries, pin \in Pins : VerifyPin(approval_id, pin)
    \/ List

Spec == Init /\ [][Next]_vars

(* -------------------- issuer and gate consumers ------------------------ *)
InitGate ==
    /\ dirs = FALSE
    /\ pinFile = NoPinFile
    /\ approvals = << >>
    /\ history \in { [exists |-> FALSE, text |-> <<>>],
                     [exists |-> TRUE, text |-> Header] }
    /\ nApproved = 0
    /\ secrets \in BOOLEAN
    /\ tempDirs = 0
    /\ archive = [exists |-> FALSE, files |-> {}]
    /\ issuedOk = {}
    /\ nEdits = 0
    /\ issuedPin = << >>
    /\ install = NotInstalled
    /\ procs = [p \in Issuers |-> NotStarted]
    /\ last = Call("start", <<>>, "", FALSE, 0, "")

NextGate ==
    \/ \E pin \in {"1234"}, salt \in {"s1"} : SetPin("YES", pin, pin, salt)
    \/ \E message \in Messages, pin \in {"1234"}, aid \in UUIDs, ts \in 0 .. MaxTime :
          Approve(message, pin, aid, ts)
    \/ \E include_secrets \in BOOLEAN, given \in BOOLEAN, approval_id \in Queries :
          Build(include_secrets, given, approval_id)
    \/ \E approval_id \in Queries, cmd \in {"none", "dry", "run"} :
          Exec(approval_id, cmd, 0)
    \/ \E approval_id \in Queries : Exec(approval_id, "run", 1)

SpecGate == InitGate /\ [][NextGate]_vars

(* ------------------------------ installer ------------------------------ *)
\* verify_configs.inspect_secrets: the exit code; hints = the secrets file
\* matches every pattern of REQUIRED_HINTS
InspectSecrets(hints) ==
    IF ~secrets THEN 2
    ELSE IF ~hints THEN 1
    ELSE 0

\* installer.main: how the invocation ends.  run_smoke_tests reads
\* os.environ and installer.py never imports os, so a run that gets as far as
\* the smoke tests ends in a NameError.
InstallerOutcome(include_secrets, given, approval_id, hints) ==
    IF InspectSecrets(hints) # 0 THEN "Config verification failed"
    ELSE IF include_secrets /\ (~given \/ approval_id = <<>>)
         THEN "must supply --approval-id"
    ELSE "NameError"

\* installer.main: the steps it runs, in order
InstallerSteps(include_secrets, given, approval_id, hints) ==
    LET outcome == InstallerOutcome(include_secrets, given, approval_id, hints) IN
    IF outcome = "Config verification failed"
    THEN <<"verify_configs", "save_state">>
    ELSE <<"verify_configs", "generate_tasks_registry", "create_snapshot",
           "lock_secrets">>
         \o (IF outcome = "must supply --approval-id"
             THEN <<"save_state">>
             ELSE <<"build_deployment", "run_smoke_tests">>)

\* make_secrets_snapshot.make_snapshot: ops/secrets.env is copied when present
SnapshotAfter(steps) ==
    install.snapshot
    \/ (secrets /\ \E i \in 1 .. Len(steps) : steps[i] = "create_snapshot")

\* tools/lock_secrets.sh: ops/secrets.env is made owner-read-only
LockedAfter(steps) ==
    install.locked
    \/ (secrets /\ \E i \in 1 .. Len(steps) : steps[i] = "lock_secrets")

\* installer.save_state: 'installed' if report['ok'] else 'failed'
StateAfter(steps, ok) ==
    IF \E i \in 1 .. Len(steps) : steps[i] = "save_state"
    THEN (IF ok THEN "installed" ELSE "failed")
    ELSE install.state

\* python3 tools/installer.py [--verify-only] [--dry-run]
\*     [--include-secrets] [--approval-id <id>]
Install(verify_only, dry_run, include_secrets, given, approval_id, hints) ==
    LET outcome == InstallerOutcome(include_secrets, given, approval_id, hints)
        steps == InstallerSteps(include_secrets, given, approval_id, hints)
        builds == outcome = "NameError"
        gate == BuildGate(include_secrets, TRUE, approval_id)
    IN
    /\ (builds /\ gate # "pass") => tempDirs < MaxTemp
    /\ tempDirs' = IF builds /\ gate # "pass" THEN tempDirs + 1 ELSE tempDirs
    /\ archive' = IF builds /\ gate = "pass"
                  THEN [exists |-> TRUE, files |-> GatherFiles(include_secrets)]
                  ELSE archive
    /\ install' = [snapshot |-> SnapshotAfter(steps),
                   locked |-> LockedAfter(steps),
                   state |-> StateAfter(steps, FALSE)]
    /\ last' = [Call("install", IF given THEN approval_id ELSE <<>>, "", FALSE,
                     IF outcome = "NameError" THEN 1 ELSE 0, outcome)
                EXCEPT !.flag = include_secrets, !.did = steps]
    /\ UNCHANGED <<dirs, pinFile, approvals, history, nApproved, secrets,
                   issuedOk, nEdits, issuedPin, procs>>

NextInstall ==
    \/ \E pin \in {"1234"}, salt \in {"s1"} : SetPin("YES", pin, pin, salt)
    \/ \E message \in Messages, pin \in {"1234"}, aid \in UUIDs, ts \in 0 .. MaxTime :
          Approve(message, pin, aid, ts)
    \/ \E verify_only \in BOOLEAN, dry_run \in BOOLEAN, include_secrets \in BOOLEAN,
          given \in BOOLEAN, approval_id \in Queries, hints \in BOOLEAN :
          Install(verify_only, dry_run, include_secrets, given, approval_id, hints)

SpecInstall == InitGate /\ [][NextInstall]_vars

(* ----------------------- changed-files lister -------------------------- *)
\* the lister asking the existence-mode verifier instead
VerifyWithPinExistenceOnly(approval_id, pin) == VerifyApproval(approval_id)

\* require_get_changed_files.verify_with_pin: loads secure_env_manager.py and
\* calls verify_approval_with_pin
VerifyWithPin(approval_id, pin) == VerifyApprovalWithPin(approval_id, pin)

\* require_get_changed_files.main: the exit code; rc is what
\* list_changed_files returns (0, or 2 when git fails)
ChangedFilesExit(approval_id, pin, rc) ==
    IF ~VerifyWithPin(approval_id, pin) THEN 2 ELSE rc

ChangedFiles(approval_id, pin, rc) ==
    LET ok == VerifyWithPin(approval_id, pin) IN
    /\ dirs' = TRUE
    /\ last' = [Call("changed-files", approval_id, pin, ok,
                     ChangedFilesExit(approval_id, pin, rc),
                     IF ok THEN "listing" ELSE "Approval verification failed")
                EXCEPT !.did = IF ok THEN <<"list_changed_files">> ELSE <<>>]
    /\ UNCHANGED <<pinFile, approvals, history, nApproved, secrets, tempDirs,
                   archive, issuedOk, nEdits, issuedPin, install, procs>>

NextLister ==
    \/ \E pin \in Pins, salt \in {"s1"} : SetPin("YES", pin, pin, salt)
    \/ \E message \in Messages, pin \in Pins, aid \in UUIDs, ts \in 0 .. MaxTime :
          Approve(message, pin, aid, ts)
    \/ \E approval_id \in Queries, pin \in Pins, rc \in {0, 2} :
          ChangedFiles(approval_id, pin, rc)

SpecLister == Init /\ [][NextLister]_vars

(* ------------------- the ledger under any message ---------------------- *)
\* --message values that span more than one line
MultiLineMessages == { <<"o", "\n", "k">> }

NextLedger ==
    \/ \E pin \in {"1234"}, salt \in {"s1"} : SetPin("YES", pin, pin, salt)
    \/ \E message \in Messages \cup MultiLineMessages, pin \in {"1234"},
          aid \in UUIDs, ts \in 0 .. MaxTime :
          Approve(message, pin, aid, ts)
    \/ \E approval_id \in UUIDs : Verify(approval_id)
    \/ \E approval_id \in UUIDs, pin \in {"1234"} : VerifyPin(approval_id, pin)
    \/ List

SpecLedger == Init /\ [][NextLedger]_vars

(* ------------- the credential store changing under approvals ---------- *)
\* .secure/pin.hash is deleted
RemovePinFile ==
    /\ nEdits < MaxEdits
    /\ pinFile.exists
    /\ pinFile' = NoPinFile
    /\ nEdits' = nEdits + 1
    /\ last' = Call("remove pin file", <<>>, "", FALSE, 0, "")
    /\ UNCHANGED <<dirs, approvals, history, nApproved, secrets, tempDirs,
                   archive, issuedOk, issuedPin, install, procs>>

NextCred ==
    \/ \E pin \in Pins, salt \in {"s1"} : SetPin("YES", pin, pin, salt)
    \/ \E message \in {<<"o", "k">>}, pin \in Pins, aid \in UUIDs, ts \in 0 .. MaxTime :
          Approve(message, pin, aid, ts)
    \/ \E approval_id \in UUIDs, pin \in Pins : VerifyPin(approval_id, pin)
    \/ RemovePinFile

SpecCred == Init /\ [][NextCred]_vars

(* ---------------- approve invocations running step by step ------------- *)
\* approve: payload = {"id": aid, "ts": ts, "message": message}
IssuerPayload(p) ==
    [id |-> procs[p].aid, ts |-> procs[p].ts, message |-> procs[p].message]

\* approve: record = {"payload": payload, "sig": sig}
IssuerRecord(p) ==
    RecordFile(IssuerPayload(p),
               Hmac(procs[p].pin, CanonJson(IssuerPayload(p))))

\* approve: entry = f"- [...] APPROVAL: id={aid} message={message}\n"
IssuerEntry(p) == Entry(procs[p].ts, procs[p].aid, procs[p].message)

\* approve up to the record: _ensure_dirs, _check_pin, uuid4, time.time
IssuerStart(p, message, pin, aid, ts) ==
    /\ ~procs[p].alive
    /\ CheckPin(pin) => nApproved < MaxApprovals
    /\ dirs' = TRUE
    /\ IF CheckPin(pin)
       THEN /\ procs' = [procs EXCEPT ![p] =
                           [pc |-> "checked", alive |-> TRUE, pin |-> pin,
                            aid |-> aid, ts |-> ts, message |-> message,
                            text |-> <<>>]]
            /\ nApproved' = nApproved + 1
            /\ UNCHANGED last
       ELSE /\ last' = Call("approve", aid, pin, FALSE, 0, "Invalid PIN")
            /\ UNCHANGED <<procs, nApproved>>
    /\ UNCHANGED <<pinFile, approvals, history, secrets, tempDirs, archive,
                   issuedOk, nEdits, issuedPin, install>>

\* approve: path.write_text(json.dumps(record, indent=2))
IssuerWriteRecord(p) ==
    /\ procs[p].alive /\ procs[p].pc = "checked"
    /\ approvals' = WriteFile(approvals, procs[p].aid, IssuerRecord(p))
    /\ procs' = [procs EXCEPT ![p].pc = "written"]
    /\ UNCHANGED <<dirs, pinFile, history, nApproved, secrets, tempDirs,
                   archive, issuedOk, nEdits, issuedPin, install, last>>

\* the ledger is read before the record is written
IssuerReadReadyEarly(p) ==
    procs[p].alive /\ procs[p].pc \in {"checked", "written"}

\* approve: the statement after path.write_text is the ledger append
IssuerReadReady(p) ==
    procs[p].alive /\ procs[p].pc = "written"

\* approve: HISTORY.read_text(), the first half of the append; it raises
\* FileNotFoundError when the ledger is missing
IssuerReadLedger(p) ==
    /\ IssuerReadReady(p)
    /\ IF history.exists
       THEN /\ procs' = [procs EXCEPT ![p].pc = "read",
                                       ![p].text = history.text]
            /\ UNCHANGED last
       ELSE /\ procs' = [procs EXCEPT ![p].pc = "crashed",
                                       ![p].alive = FALSE]
            /\ last' = Call("approve", procs[p].aid, procs[p].pin, FALSE, 1,
                            "FileNotFoundError")
    /\ UNCHANGED <<dirs, pinFile, approvals, history, nApproved, secrets,
                   tempDirs, archive, issuedOk, nEdits, issuedPin, install>>

\* the entry is added to what the ledger holds at the time of the write
IssuerWriteBackTextAtomic(p) == history.text \o IssuerEntry(p)

\* approve: the argument of HISTORY.write_text: what was read, plus the entry
IssuerWriteBackText(p) == procs[p].text \o IssuerEntry(p)

\* approve: HISTORY.write_text(...), the second half of the append, and the
\* two lines printed after it
IssuerWriteBack(p) ==
    /\ procs[p].alive /\ procs[p].pc = "read"
    /\ history' = [exists |-> TRUE, text |-> IssuerWriteBackText(p)]
    /\ procs' = [procs EXCEPT ![p].pc = "done", ![p].alive = FALSE]
    /\ issuedOk' = issuedOk \cup {procs[p].aid}
    /\ issuedPin' = WriteFile(issuedPin, procs[p].aid, procs[p].pin)
    /\ last' = Call("approve", procs[p].aid, procs[p].pin, TRUE, 0,
                    "Approval created")
    /\ UNCHANGED <<dirs, pinFile, approvals, nApproved, secrets, tempDirs,
                   archive, nEdits, install>>

\* the invocation is killed where it stands
IssuerStop(p) ==
    /\ procs[p].alive
    /\ procs' = [procs EXCEPT ![p].alive = FALSE]
    /\ last' = Call("approve", procs[p].aid, procs[p].pin, FALSE, 137, "killed")
    /\ UNCHANGED <<dirs, pinFile, approvals, history, nApproved, secrets,
                   tempDirs, archive, issuedOk, nEdits, issuedPin, install>>

NextRace ==
    \/ \E pin \in {"1234"}, salt \in {"s1"} : SetPin("YES", pin, pin, salt)
    \/ \E p \in Issuers, message \in Messages, pin \in {"1234"}, aid \in UUIDs,
          ts \in 0 .. MaxTime :
          IssuerStart(p, message, pin, aid, ts)
    \/ \E p \in Issuers : IssuerWriteRecord(p)
    \/ \E p \in Issuers : IssuerReadLedger(p)
    \/ \E p \in Issuers : IssuerWriteBack(p)
    \/ \E p \in Issuers : IssuerStop(p)

SpecRace == Init /\ [][NextRace]_vars

(* ------------- the files edited from outside the tools ----------------- *)
\* the lines of a text, each with its terminating newline
RECURSIVE SplitLines(_)
SplitLines(text) ==
    IF text = <<>> THEN <<>>
    ELSE LET ends == { i \in 1 .. Len(text) : text[i] = "\n" } \cup { Len(text) }
             k == CHOOSE i \in ends : \A m \in ends : i <= m
         IN  << SubSeq(text, 1, k) >> \o SplitLines(SubSeq(text, k + 1, Len(text)))

RECURSIVE JoinLines(_)
JoinLines(lines) ==
    IF lines = <<>> THEN <<>> ELSE Head(lines) \o JoinLines(Tail(lines))

\* the line is the ledger entry that approve wrote for aid
IsEntryOf(line, aid) ==
    LET h == Len(EntryHead(0)) IN
    /\ Len(line) >= h + Len(aid) + 9
    /\ SubSeq(line, 1, 3) = <<"-", " ", "[">>
    /\ SubSeq(line, h - 14, h) = SubSeq(EntryHead(0), h - 14, h)
    /\ SubSeq(line, h + 1, h + Len(aid)) = aid
    /\ SubSeq(line, h + Len(aid) + 1, h + Len(aid) + 9)
           = <<" ", "m", "e", "s", "s", "a", "g", "e", "=">>

RemoveEntry(text, aid) ==
    LET NotOwn(line) == ~IsEntryOf(line, aid)
    IN  JoinLines(SelectSeq(SplitLines(text), NotOwn))

HasEntry(aid) ==
    /\ history.exists
    /\ \E i \in 1 .. Len(SplitLines(history.text)) :
          IsEntryOf(SplitLines(history.text)[i], aid)

Edited(op, name) == Call(op, name, "", FALSE, 0, "")

\* one field of the payload is changed, the signature stays as it was
EditPayload(name, field, value) ==
    /\ nEdits < MaxEdits
    /\ name \in DOMAIN approvals
    /\ approvals[name].parses /\ approvals[name].hasPayload
    /\ approvals[name].payload[field] # value
    /\ approvals' = [approvals EXCEPT ![name].payload[field] = value]
    /\ nEdits' = nEdits + 1
    /\ last' = Edited("edit payload", name)
    /\ UNCHANGED <<dirs, pinFile, history, nApproved, secrets, tempDirs,
                   archive, issuedOk,
                   issuedPin, install, procs>>

Damaged(rec, kind) ==
    CASE kind = "not json" ->
            [parses |-> FALSE, hasPayload |-> FALSE, payload |-> NoPayload,
             sig |-> NoSig]
      [] kind = "no payload" ->
            [rec EXCEPT !.hasPayload = FALSE, !.payload = NoPayload]
      [] kind = "no sig" -> [rec EXCEPT !.sig = NoSig]
      [] kind = "empty sig" -> [rec EXCEPT !.sig = [kind |-> "empty", val |-> <<>>]]
      [] kind = "number sig" -> [rec EXCEPT !.sig = [kind |-> "number", val |-> <<>>]]

DamageKinds == {"not json", "no payload", "no sig", "empty sig", "number sig"}

\* the record file is left malformed
DamageRecord(name, kind) ==
    /\ nEdits < MaxEdits
    /\ name \in DOMAIN approvals
    /\ approvals[name].parses /\ approvals[name].hasPayload
    /\ approvals[name].sig.kind = "str"
    /\ approvals' = [approvals EXCEPT ![name] = Damaged(approvals[name], kind)]
    /\ nEdits' = nEdits + 1
    /\ last' = Edited(kind, name)
    /\ UNCHANGED <<dirs, pinFile, history, nApproved, secrets, tempDirs,
                   archive, issuedOk,
                   issuedPin, install, procs>>

\* the record file is deleted
DeleteRecord(name) ==
    /\ nEdits < MaxEdits
    /\ name \in DOMAIN approvals
    /\ approvals' = [n \in (DOMAIN approvals) \ {name} |-> approvals[n]]
    /\ nEdits' = nEdits + 1
    /\ last' = Edited("delete record", name)
    /\ UNCHANGED <<dirs, pinFile, history, nApproved, secrets, tempDirs,
                   archive, issuedOk,
                   issuedPin, install, procs>>

\* the ledger lines written for aid are removed, the record stays
RemoveLedgerLine(aid) ==
    /\ nEdits < MaxEdits
    /\ HasEntry(aid)
    /\ history' = [history EXCEPT !.text = RemoveEntry(history.text, aid)]
    /\ nEdits' = nEdits + 1
    /\ last' = Edited("remove line", aid)
    /\ UNCHANGED <<dirs, pinFile, approvals, nApproved, secrets, tempDirs,
                   archive, issuedOk,
                   issuedPin, install, procs>>

\* the ledger file is deleted
DeleteLedger ==
    /\ nEdits < MaxEdits
    /\ history.exists
    /\ history' = [exists |-> FALSE, text |-> <<>>]
    /\ nEdits' = nEdits + 1
    /\ last' = Edited("delete ledger", <<>>)
    /\ UNCHANGED <<dirs, pinFile, approvals, nApproved, secrets, tempDirs,
                   archive, issuedOk,
                   issuedPin, install, procs>>

NextEnv ==
    \/ \E pin \in {"1234"}, salt \in {"s1"} : SetPin("YES", pin, pin, salt)
    \/ \E message \in Messages, pin \in {"1234"}, aid \in UUIDs, ts \in 0 .. MaxTime :
          Approve(message, pin, aid, ts)
    \/ \E approval_id \in Queries : Verify(approval_id)
    \/ \E approval_id \in Queries, pin \in Pins : VerifyPin(approval_id, pin)
    \/ \E name \in UUIDs, value \in UUIDs : EditPayload(name, "id", value)
    \/ \E name \in UUIDs, value \in 0 .. MaxTime + 1 : EditPayload(name, "ts", value)
    \/ \E name \in UUIDs, value \in Messages : EditPayload(name, "message", value)
    \/ \E name \in UUIDs, kind \in DamageKinds : DamageRecord(name, kind)
    \/ \E name \in UUIDs : DeleteRecord(name)
    \/ \E aid \in UUIDs : RemoveLedgerLine(aid)
    \/ DeleteLedger

SpecEnv == Init /\ [][NextEnv]_vars

(* ============================== claims ================================= *)
InLedger(id) == history.exists /\ Contains(id, history.text)

\* C1: approve called with a PIN that fails _check_pin (wrong PIN or no PIN
\* file) writes nothing: the approval records and the ledger are the same
\* after the call as before it.
C1_InvalidPinWritesNothing ==
    [][ (last'.op = "approve" /\ ~CheckPin(last'.pin))
        => (approvals' = approvals /\ history' = history) ]_vars

C1_Witness ==
    /\ last.op = "approve" /\ last.out = "Invalid PIN"
    /\ pinFile.exists /\ issuedOk # {}

\* C2: right after approve created an approval with PIN p, verify-pin with p
\* grants it, verify-pin with any other PIN denies it, and verify grants it.
C2_IssuedVerifiesOnlyWithIssuingPin ==
    (last.op = "approve" /\ last.ok)
    => /\ VerifyApprovalWithPin(last.id, last.pin)
       /\ \A q \in Pins \ {last.pin} : ~VerifyApprovalWithPin(last.id, q)
       /\ VerifyApproval(last.id)

C2_Witness ==
    /\ last.op = "approve" /\ last.ok
    /\ Cardinality(issuedOk) = 2

\* C3: when one field of the payload of a record that verified is changed and
\* the signature is left as it was, verify-pin denies the id for every PIN and
\* verify still grants it.
C3_EditedPayloadFailsStrictOnly ==
    [][ \A name \in UUIDs :
          (/\ last'.op = "edit payload" /\ last'.id = name
           /\ VerifyApproval(name)
           /\ \E p \in Pins : VerifyApprovalWithPin(name, p))
          => /\ VerifyApproval(name)'
             /\ \A pin \in Pins : ~VerifyApprovalWithPin(name, pin)' ]_vars

C3_Witness ==
    /\ last.op = "edit payload" /\ last.id \in issuedOk
    /\ VerifyApproval(last.id)
    /\ \A pin \in Pins : ~VerifyApprovalWithPin(last.id, pin)

\* C4: after the ledger line of an issued id is removed while its record
\* stays on disk, verify and verify-pin (for every PIN) deny the id, whatever
\* the other ledger lines contain.
C4_RemovedLineDenies ==
    (last.op = "remove line" /\ last.id \in issuedOk
     /\ last.id \in DOMAIN approvals)
    => /\ ~VerifyApproval(last.id)
       /\ \A pin \in Pins : ~VerifyApprovalWithPin(last.id, pin)

\* C5 as stated: verify grants an id if and only if a record file for the id
\* exists and the id occurs in the ledger, whatever the record file holds.
C5_Original ==
    \A q \in Queries :
        VerifyApproval(q) <=> (q \in DOMAIN approvals /\ InLedger(q))

\* C5 amended: verify grants an id if and only if a record file for the id
\* exists, the file is JSON with a payload, and the id occurs in the ledger;
\* its exit code is 0 exactly when it grants.
C5_VerifyIffLoadableRecordInLedger ==
    last.op = "verify"
    => /\ last.ok <=> (/\ last.id \in DOMAIN approvals
                       /\ approvals[last.id].parses
                       /\ approvals[last.id].hasPayload
                       /\ InLedger(last.id))
       /\ last.exit = (IF last.ok THEN 0 ELSE 2)

C5_Witness ==
    /\ last.op = "verify" /\ ~last.ok
    /\ last.id \in DOMAIN approvals /\ InLedger(last.id)
    /\ ~approvals[last.id].parses

\* C6: an id for which approve reported success is granted by verify from then
\* on, after any later set-pin, approve, list, verify or verify-pin call.
C6_IssuedStaysVerifiable ==
    \A id \in issuedOk : VerifyApproval(id)

C6_Witness ==
    /\ Cardinality(issuedOk) = 2
    /\ last.op = "set-pin" /\ last.ok

\* the cases of C7
BadRecord(id) ==
    \/ id \notin DOMAIN approvals
    \/ ~approvals[id].parses
    \/ ~approvals[id].hasPayload
BadSignature(id) ==
    /\ id \in DOMAIN approvals
    /\ approvals[id].sig.kind # "str"

\* C7 as stated: for a missing record file, a record that is not JSON or has
\* no payload, a missing, empty or non-string signature, or a missing ledger,
\* verify and verify-pin both deny.
C7_Original ==
    \A q \in Queries :
        (BadRecord(q) \/ BadSignature(q) \/ ~history.exists)
        => /\ ~VerifyApproval(q)
           /\ \A pin \in Pins : ~VerifyApprovalWithPin(q, pin)

\* C7 amended: verify-pin denies (exit code 2, nothing raised) in every one of
\* those cases; verify denies (exit code 2, nothing raised) for a missing
\* record file, a record that is not JSON or has no payload, and a missing
\* ledger, and does not look at the signature.
C7_FailClosed ==
    /\ (last.op = "verify-pin"
        /\ (BadRecord(last.id) \/ BadSignature(last.id) \/ ~history.exists))
       => (~last.ok /\ last.exit = 2)
    /\ (last.op = "verify" /\ (BadRecord(last.id) \/ ~history.exists))
       => (~last.ok /\ last.exit = 2)
    /\ \A q \in Queries :
         /\ (BadRecord(q) \/ ~history.exists) => ~VerifyApproval(q)
         /\ (BadRecord(q) \/ BadSignature(q) \/ ~history.exists)
            => \A pin \in Pins : ~VerifyApprovalWithPin(q, pin)

C7_Witness ==
    /\ last.op = "verify-pin" /\ ~last.ok
    /\ BadSignature(last.id) /\ approvals[last.id].sig.kind = "number"
    /\ InLedger(last.id)

\* C8: a build with include_secrets and an approval id gathers and copies
\* files only if verify would grant the id, and is refused with a non-zero
\* result whenever verify would deny it.
C8_BuildOnlyIfVerifierGrants ==
    (last.op = "build" /\ last.flag /\ last.id # <<>>)
    => /\ (last.ok => VerifyApproval(last.id))
       /\ (~VerifyApproval(last.id) => last.exit # 0)

\* C9: agent_executor runs the command only when the approval id is the id of
\* an approval the issuer granted; for any other string it exits with code 2
\* and runs nothing.
C9_ExecOnlyForIssuedId ==
    last.op = "exec"
    => /\ (last.did # <<>> => last.id \in issuedOk)
       /\ (last.id \notin issuedOk => (last.exit = 2 /\ last.did = <<>>))

\* C10: a build with include_secrets and no approval id (absent or empty) ends
\* with a non-zero exit before anything is gathered or copied, whatever the
\* ledger and the records hold.
C10_NoApprovalIdRefusedFirst ==
    [][ (last'.op = "build" /\ last'.flag /\ last'.id = <<>>)
        => /\ last'.exit # 0
           /\ last'.did = <<"mkdtemp">>
           /\ archive' = archive ]_vars

C10_Witness ==
    /\ last.op = "build" /\ last.flag /\ last.id = <<>>
    /\ secrets /\ issuedOk # {}
    /\ last.exit = 2

\* C11: the installer run with --include-secrets and no --approval-id refuses
\* before any step touches the secrets file (no snapshot copy, no permission
\* change, no build) and ends with a non-zero exit code.
C11_InstallerRefusesFirst ==
    (last.op = "install" /\ last.flag /\ last.id = <<>>)
    => /\ last.exit # 0
       /\ \A i \in 1 .. Len(last.did) :
            last.did[i] \notin {"create_snapshot", "lock_secrets", "build_deployment"}

\* C12: a refused build (include_secrets with a missing or rejected approval
\* id) leaves nothing behind: no archive, manifest or report is written and no
\* temporary build directory of the call remains.
C12_RefusedBuildLeavesNothing ==
    [][ (last'.op = "build" /\ last'.flag /\ ~last'.ok)
        => (archive' = archive /\ tempDirs' = tempDirs) ]_vars

\* C13: the changed-files lister reaches its listing step exactly when
\* verify_approval_with_pin grants the id with the PIN, exits with code 2
\* without listing when it denies, and reaches the listing for an id issued by
\* approve when given the issuing PIN.
C13_ListerIffStrictVerification ==
    last.op = "changed-files"
    => /\ (last.did = <<"list_changed_files">>)
            <=> VerifyApprovalWithPin(last.id, last.pin)
       /\ ~VerifyApprovalWithPin(last.id, last.pin)
            => (last.exit = 2 /\ last.did = <<>>)
       /\ (last.id \in DOMAIN issuedPin /\ issuedPin[last.id] = last.pin)
            => last.did = <<"list_changed_files">>

C13_Witness ==
    /\ last.op = "changed-files" /\ last.did = <<"list_changed_files">>
    /\ last.id \in issuedOk /\ ~CheckPin(last.pin)

\* C14: when the ledger file does not exist, approve with a valid PIN creates
\* the ledger with the new entry and succeeds (record persisted, entry
\* present, id reported); the membership tests return false, not an error.
C14_ApproveCreatesLedger ==
    /\ (last.op = "approve" /\ last.out # "Invalid PIN")
       => /\ last.ok /\ last.exit = 0
          /\ last.id \in DOMAIN approvals
          /\ InLedger(last.id)
    /\ ~history.exists
       => \A q \in Queries :
            /\ ~VerifyApproval(q) /\ ~AgentVerifyApproval(q)
            /\ \A pin \in Pins : ~VerifyApprovalWithPin(q, pin)

\* C15: when the id minted by approve is the id of a record already on disk,
\* the issuance fails and the existing record and the ledger are left as they
\* were: an existing record is never overwritten.
C15_CollisionNeverOverwrites ==
    [][ \A name \in UUIDs :
          (last'.op = "approve" /\ last'.id = name /\ CheckPin(last'.pin)
           /\ name \in DOMAIN approvals)
          => /\ ~last'.ok
             /\ approvals'[name] = approvals[name]
             /\ history' = history ]_vars

\* C16: for approve, verify and verify-pin the exit code is 0 if and only if
\* the operation succeeded.
C16_ExitZeroIffSuccess ==
    last.op \in {"approve", "verify", "verify-pin"}
    => (last.exit = 0 <=> last.ok)

\* C17: set-pin run while a PIN file exists replaces it only when the typed
\* confirmation is exactly YES and the two PIN entries match; otherwise the
\* PIN file is unchanged and the call prints "Aborted" or "Pins do not match"
\* instead of the success line.
C17_OverwriteNeedsConfirmation ==
    [][ \A confirm \in {"YES", "no"}, pin \in Pins, pin2 \in Pins, salt \in Salts :
          (pinFile.exists /\ SetPin(confirm, pin, pin2, salt))
          => \/ (confirm = "YES" /\ pin = pin2)
             \/ /\ pinFile' = pinFile
                /\ ~last'.ok
                /\ last'.out \in {"Aborted", "Pins do not match"} ]_vars

C17_Witness ==
    /\ last.op = "set-pin" /\ last.out = "Aborted"
    /\ pinFile.exists /\ ~CheckPin(last.pin)

\* C18: after a successful set-pin of PIN p, _check_pin accepts p and rejects
\* every other PIN, also one that was set before and overwritten; nothing but
\* a successful set-pin changes the PIN file.
C18_OnlyLastPinVerifies ==
    [][ /\ \A p \in Pins :
             (last'.op = "set-pin" /\ last'.ok /\ last'.pin = p)
             => /\ CheckPin(p)'
                /\ \A q \in Pins \ {p} : ~CheckPin(q)'
        /\ ~(last'.op = "set-pin" /\ last'.ok) => pinFile' = pinFile ]_vars

C18_Witness ==
    /\ last.op = "set-pin" /\ last.ok
    /\ \E id \in DOMAIN issuedPin : issuedPin[id] # last.pin

\* C19: approve, the caller of _check_pin, can tell a missing PIN file from a
\* wrong PIN: run with no PIN file it does not report "Invalid PIN".
C19_NotConfiguredIsDistinct ==
    (last.op = "approve" /\ ~pinFile.exists) => last.out # "Invalid PIN"

\* C20: after any set-pin, approve, list, verify and verify-pin calls, the PIN
\* file holds a salt and a PBKDF2 digest, every record holds an HMAC digest,
\* and neither the records' fields nor the ledger text contain the characters
\* of a PIN (the messages given to approve do not contain one).
C20_NoCleartextPin ==
    \A pin \in Pins :
        /\ pinFile.exists
           => (pinFile.salt \in Salts /\ pinFile.dk[1] = "pbkdf2")
        /\ \A n \in DOMAIN approvals :
              /\ approvals[n].sig.val[1] = "hmac"
              /\ ~Contains(PinChars(pin), approvals[n].payload.id)
              /\ ~Contains(PinChars(pin), approvals[n].payload.message)
        /\ ~Contains(PinChars(pin), history.text)

C20_Witness ==
    /\ pinFile.exists /\ Cardinality(issuedOk) = 2
    /\ last.op = "verify-pin" /\ last.ok

IsPrefix(s, t) == Len(s) <= Len(t) /\ SubSeq(t, 1, Len(s)) = s

\* C21: the ledger is append-only with one line per approval: no operation
\* removes or changes what the ledger holds, and every successful approve
\* adds to the previous content exactly one line, which holds the id, the
\* timestamp and the message, whatever the message is.
C21_AppendOnlyOneLine ==
    [][ /\ history.exists
           => (history'.exists /\ IsPrefix(history.text, history'.text))
        /\ \A name \in UUIDs :
             (last'.op = "approve" /\ last'.ok /\ last'.id = name)
             => LET added == SubSeq(history'.text, Len(history.text) + 1,
                                    Len(history'.text))
                IN  /\ Len(SplitLines(added)) = 1
                    /\ Contains(name, added)
                    /\ \E ts \in 0 .. MaxTime : Contains(Strftime(ts), added)
                    /\ Contains(approvals'[name].payload.message, added) ]_vars

\* C22: the installer run with --verify-only or with --dry-run, and without
\* --include-secrets, ends with exit code 0 on every path, whether the config
\* verification succeeds or fails.
C22_VerifyOnlyDryRunExitZero ==
    [][ \A verify_only \in BOOLEAN, dry_run \in BOOLEAN, given \in BOOLEAN,
           approval_id \in Queries, hints \in BOOLEAN :
          (/\ verify_only \/ dry_run
           /\ Install(verify_only, dry_run, FALSE, given, approval_id, hints))
          => last'.exit = 0 ]_vars

\* the signature stored for id is the HMAC of the stored payload under pin
SigMatches(id, pin) ==
    /\ id \in DOMAIN approvals
    /\ approvals[id].parses /\ approvals[id].hasPayload
    /\ approvals[id].sig.kind = "str"
    /\ approvals[id].sig.val = Hmac(pin, CanonJson(approvals[id].payload))

C27_StrictIgnoresCredentialStore ==
    /\ \A id \in issuedOk :
          /\ VerifyApprovalWithPin(id, issuedPin[id])
          /\ \A q \in Pins \ {issuedPin[id]} : ~VerifyApprovalWithPin(id, q)
    /\ (last.op = "verify-pin" /\ last.id \in issuedOk)
       => /\ last.ok <=> (last.pin = issuedPin[last.id])
          /\ last.exit = (IF last.ok THEN 0 ELSE 2)

C27_Witness ==
    /\ last.op = "verify-pin" /\ last.ok
    /\ pinFile.exists /\ ~CheckPin(last.pin)
    /\ \E q \in Pins \ {last.pin} : CheckPin(q)

\* C28: verify, verify-pin and list change neither the PIN file nor any
\* approval record nor the ledger, whatever their arguments and whether they
\* grant or deny.
C28_ReadSideChangesNothing ==
    [][ last'.op \in {"verify", "verify-pin", "list"}
        => (pinFile' = pinFile /\ approvals' = approvals
            /\ history' = history) ]_vars

C28_Witness ==
    /\ last.op = "list" /\ last.out = "rows"
    /\ pinFile.exists /\ Cardinality(DOMAIN approvals) = 2

Succeeded(p) == procs[p].pc = "done" /\ ~procs[p].alive

\* C24: when two approve invocations with valid PINs and different ids both
\* read the same ledger content before either wrote back, both persist
\* their record and report success, while the ledger ends up as the content
\* they read plus the entry of only one of them (the one that wrote last).
C24_StaleReadLosesEntry ==
    \A p \in Issuers : \A q \in Issuers \ {p} :
        (/\ Succeeded(p) /\ Succeeded(q)
         /\ procs[p].text = procs[q].text
         /\ procs[p].aid # procs[q].aid)
        => /\ {procs[p].aid, procs[q].aid} \subseteq issuedOk
           /\ {procs[p].aid, procs[q].aid} \subseteq DOMAIN approvals
           /\ \E w \in {p, q} :
                 history.text = procs[w].text \o IssuerEntry(w)
           /\ Len(SplitLines(history.text))
                 = Len(SplitLines(procs[p].text)) + 1

\* both reported success, both records are on disk, and verify denies one
C24_Witness ==
    \E p \in Issuers : \E q \in Issuers \ {p} :
        /\ Succeeded(p) /\ Succeeded(q)
        /\ procs[p].text = procs[q].text
        /\ {procs[p].aid, procs[q].aid} \subseteq issuedOk
        /\ {procs[p].aid, procs[q].aid} \subseteq DOMAIN approvals
        /\ ~VerifyApproval(procs[p].aid)
        /\ ~HasEntry(procs[p].aid)
        /\ VerifyApproval(procs[q].aid)

\* the invocation of issuer p was killed after it wrote its record and
\* before it wrote the ledger, and no issuance of its id reported success
Orphaned(p) ==
    /\ ~procs[p].alive /\ procs[p].pc \in {"written", "read"}
    /\ procs[p].aid \notin issuedOk

\* C25: when approve stops between the record write and the ledger append,
\* the record stays on disk without a ledger entry, and from then on verify
\* and verify-pin (for every PIN) deny that id, whatever is issued later.
C25_OrphanStaysDenied ==
    \A p \in Issuers :
        Orphaned(p)
        => /\ procs[p].aid \in DOMAIN approvals
           /\ ~HasEntry(procs[p].aid)
           /\ ~VerifyApproval(procs[p].aid)
           /\ \A pin \in Pins : ~VerifyApprovalWithPin(procs[p].aid, pin)

\* C26: whatever approve invocations ran, one after the other or at the same
\* time, to their end or killed at any step, every ledger entry names an id
\* whose signed record is on disk.
C26_EntryNeverBeforeRecord ==
    \A aid \in UUIDs :
        HasEntry(aid)
        => /\ aid \in DOMAIN approvals
           /\ approvals[aid].payload.id = aid
           /\ \E pin \in Pins : SigMatches(aid, pin)

\* one entry is in the ledger while another invocation has written its
\* record and read the ledger, its entry not yet written
C26_Witness ==
    \E p \in Issuers : \E q \in Issuers \ {p} :
        /\ Succeeded(q) /\ HasEntry(procs[q].aid)
        /\ procs[p].alive /\ procs[p].pc = "read"
        /\ procs[p].aid \in DOMAIN approvals /\ ~HasEntry(procs[p].aid)
====
